---------------------------- MODULE Spec2Model ----------------------------
(***************************************************************************)
(* no_clock: a clock that is a function of simulated time.                 *)
(*                                                                         *)
(* Time (sc_core::sc_time) is a natural number of resolution ticks.  The   *)
(* duty cycle (a double in [0,1]) is the fraction duty/DutyDen.            *)
(* The header src/include/no_clock.h holds the inline members; the         *)
(* constructors, global() and the set_* members other than set_time_shift  *)
(* are only declared there and are modelled from the specification.        *)
(***************************************************************************)
EXTENDS Integers, FiniteSets, Sequences, TLC

\* ------------------------------------------------------------- bounds
MaxPeriod == 3      \* periods are 1..MaxPeriod ticks
DutyDen   == 2      \* duty cycles are 0/DutyDen .. DutyDen/DutyDen
MaxShift  == 2      \* temporal shifts are 0..MaxShift ticks
MaxTime   == 6      \* simulated time is capped at MaxTime ticks
MaxCycles == 1      \* the cycles argument of until_/next_/wait_ is 0..MaxCycles
MaxWait   == 2      \* a plain wait(d) suspends for 1..MaxWait ticks
MaxChanges == 2     \* configuration changes that count are capped at MaxChanges
MaxFreq   == 4      \* frequencies are 1..MaxFreq
TicksPerSecond == 4 \* sc_time(1, SC_SEC) in resolution ticks
NumKeys   == 3      \* the const char* values passed to global() are 1..NumKeys
NumNames  == 2      \* the distinct character contents those strings have
NumProcs  == 2      \* the consumer processes that share the clock are 1..NumProcs

Periods == 1..MaxPeriod
Duties  == 0..DutyDen
Shifts  == 0..MaxShift
Cycles  == 0..MaxCycles
Procs   == 1..NumProcs

VARIABLES
  now,        \* sc_core::sc_time_stamp()
  clk,        \* the no_clock instance the consumer uses (its data members)
  pc,         \* the consumer thread: "run" or "wait" (suspended in wait(t))
  wake,       \* the time the suspended consumer resumes at
  call,       \* the wait_* call the consumer made last, NoCall after any other step
  s_global,   \* no_clock::s_global: key (a const char*) -> index into objs, 0 if absent
  objs,       \* the no_clock objects global() has constructed, in order
  rets,       \* what the global() calls returned: <<key, index into objs>>
  consumers   \* the processes sharing clk: each one's state and its last wait_* call

vars == <<now, clk, pc, wake, call, s_global, objs, rets, consumers>>

SC_ZERO_TIME == 0

NoCall == [op |-> "none"]

\* a consumer process that runs and has not used the clock yet
NoConsumer == [pc |-> "run", wake |-> 0, op |-> "none", at |-> 0, released |-> 0]

\* ------------------------------------------------------- free functions

\* operator % (sc_time, sc_time): lhd - rhd*int(lhd/rhd); sc_time is unsigned,
\* so int() truncates a non-negative quotient
TimeMod(lhs, rhs) == lhs - rhs * (lhs \div rhs)

\* faulty variant of delay: the on-landmark case (remainder = offset) is missing
delay_no_zero(tPERIOD, tOFFSET, tSHIFT) ==
  LET tREMAINDER == TimeMod(now + tSHIFT, tPERIOD)
  IN  IF tREMAINDER < tOFFSET THEN tOFFSET - tREMAINDER
      ELSE tPERIOD + tOFFSET - tREMAINDER

\* delay: sc_time_stamp() is now
delay(tPERIOD, tOFFSET, tSHIFT) ==
  LET tREMAINDER == TimeMod(now + tSHIFT, tPERIOD)
  IN  IF tREMAINDER = tOFFSET THEN SC_ZERO_TIME
      ELSE IF tREMAINDER < tOFFSET THEN tOFFSET - tREMAINDER
      ELSE tPERIOD + tOFFSET - tREMAINDER

clocks(tPERIOD, tZERO, tSHIFT) == (now + tSHIFT - tZERO) \div tPERIOD

\* ------------------------------------------------------- construction

\* high-time = dutyCycle * period
HighTime(tPERIOD, duty) == (duty * tPERIOD) \div DutyDen

\* positive-edge-offset and negative-edge-offset, normalised into [0, period)
PosEdgeOffset(tPERIOD, duty, tOFFSET, positive) ==
  IF positive THEN TimeMod(tOFFSET, tPERIOD)
  ELSE TimeMod(tOFFSET + HighTime(tPERIOD, duty), tPERIOD)

NegEdgeOffset(tPERIOD, duty, tOFFSET, positive) ==
  IF positive THEN TimeMod(tOFFSET + HighTime(tPERIOD, duty), tPERIOD)
  ELSE TimeMod(tOFFSET, tPERIOD)

\* a configuration error: non-positive period, duty outside [0,1], a landmark
\* offset outside the period
ValidConfig(tPERIOD, duty, tOFFSET, tSAMPLE, tSETEDGE) ==
  /\ tPERIOD > 0
  /\ duty >= 0 /\ duty <= DutyDen
  /\ tOFFSET >= 0 /\ tOFFSET < tPERIOD
  /\ tSAMPLE >= 0 /\ tSAMPLE < tPERIOD
  /\ tSETEDGE >= 0 /\ tSETEDGE < tPERIOD

no_clock(tPERIOD, duty, tOFFSET, tSAMPLE, tSETEDGE, positive) ==
  [ m_tPERIOD       |-> tPERIOD,
    m_duty          |-> duty,
    m_tOFFSET       |-> tOFFSET,
    m_tPOSEDGE      |-> PosEdgeOffset(tPERIOD, duty, tOFFSET, positive),
    m_tNEGEDGE      |-> NegEdgeOffset(tPERIOD, duty, tOFFSET, positive),
    m_posedge       |-> positive,
    m_tSAMPLE       |-> tSAMPLE,
    m_tSETEDGE      |-> tSETEDGE,
    m_frequency_set |-> now,
    m_freq_count    |-> 0,
    m_base_count    |-> 0,
    m_tSHIFT        |-> SC_ZERO_TIME ]

\* ------------------------------------------------------- queries on clk

\* faulty variant of until_posedge: measures to the negative edge
until_posedge_neg(cycles_) ==
  cycles_ * clk.m_tPERIOD + delay(clk.m_tPERIOD, clk.m_tNEGEDGE, clk.m_tSHIFT)

until_posedge(cycles_) ==
  cycles_ * clk.m_tPERIOD + delay(clk.m_tPERIOD, clk.m_tPOSEDGE, clk.m_tSHIFT)

until_negedge(cycles_) ==
  cycles_ * clk.m_tPERIOD + delay(clk.m_tPERIOD, clk.m_tNEGEDGE, clk.m_tSHIFT)

\* faulty variant of read: the comparison is the wrong way round
read_swapped == until_posedge(0) < until_negedge(0)

read == until_negedge(0) < until_posedge(0)

\* faulty variant of until_anyedge: the cycles are passed on as well as added
until_anyedge_twice(cycles_) ==
  cycles_ * clk.m_tPERIOD
    + (IF read = TRUE THEN until_negedge(cycles_) ELSE until_posedge(cycles_))

until_anyedge(cycles_) ==
  cycles_ * clk.m_tPERIOD + (IF read = TRUE THEN until_negedge(0) ELSE until_posedge(0))

until_sample(cycles_) ==
  cycles_ * clk.m_tPERIOD + delay(clk.m_tPERIOD, clk.m_tSAMPLE, clk.m_tSHIFT)

until_setedge(cycles_) ==
  cycles_ * clk.m_tPERIOD + delay(clk.m_tPERIOD, clk.m_tSETEDGE, clk.m_tSHIFT)

\* ------------------------------------------------------- cycle counter

cycles == clk.m_base_count + clocks(clk.m_tPERIOD, clk.m_frequency_set, clk.m_tSHIFT)

frequency_changes == clk.m_freq_count

\* ------------------------------------------------------- next_*: never zero

\* faulty variant of next_posedge: no period added when the delay is zero
next_posedge_plain(cycles_) ==
  LET t == delay(clk.m_tPERIOD, clk.m_tPOSEDGE, clk.m_tSHIFT)
  IN  cycles_ * clk.m_tPERIOD + t

next_posedge(cycles_) ==
  LET t == delay(clk.m_tPERIOD, clk.m_tPOSEDGE, clk.m_tSHIFT)
  IN  (cycles_ + (IF SC_ZERO_TIME = t THEN 1 ELSE 0)) * clk.m_tPERIOD + t

next_negedge(cycles_) ==
  LET t == delay(clk.m_tPERIOD, clk.m_tNEGEDGE, clk.m_tSHIFT)
  IN  (cycles_ + (IF SC_ZERO_TIME = t THEN 1 ELSE 0)) * clk.m_tPERIOD + t

next_anyedge(cycles_) ==
  cycles_ * clk.m_tPERIOD + (IF read = TRUE THEN next_negedge(0) ELSE next_posedge(0))

next_sample(cycles_) ==
  LET t == delay(clk.m_tPERIOD, clk.m_tSAMPLE, clk.m_tSHIFT)
  IN  (cycles_ + (IF SC_ZERO_TIME = t THEN 1 ELSE 0)) * clk.m_tPERIOD + t

next_setedge(cycles_) ==
  LET t == delay(clk.m_tPERIOD, clk.m_tSETEDGE, clk.m_tSHIFT)
  IN  (cycles_ + (IF SC_ZERO_TIME = t THEN 1 ELSE 0)) * clk.m_tPERIOD + t

\* ------------------------------------------------------- at_*_time

at_posedge_time == until_posedge(0) = SC_ZERO_TIME

at_negedge_time == until_negedge(0) = SC_ZERO_TIME

at_anyedge_time == until_anyedge(0) = SC_ZERO_TIME

at_sample_time  == until_sample(0) = SC_ZERO_TIME

\* as written in the source: the sample landmark is tested
at_setedge_time == until_sample(0) = SC_ZERO_TIME

\* ------------------------------------------------------- the consumer thread

registry == <<s_global, objs, rets>>

\* sc_core::wait(t): the calling thread is suspended and resumes at now + t
wait(t) == pc' = "wait" /\ wake' = now + t

\* the scheduler resumes the suspended thread at its wake-up time
Resume ==
  /\ pc = "wait"
  /\ now' = wake
  /\ pc' = "run"
  /\ wake' = 0
  /\ UNCHANGED <<clk, call, registry, consumers>>

\* the consumer's own wait(d), between two uses of the clock
thread_wait(d) ==
  /\ pc = "run"
  /\ now + d <= MaxTime
  /\ wait(d)
  /\ call' = NoCall
  /\ UNCHANGED <<now, clk, registry, consumers>>

\* faulty variant of WaitIfNeeded: wait(t) even when t is zero
WaitAlways(op, cycles_, t) ==
  /\ pc = "run"
  /\ now + t <= MaxTime
  /\ wait(t)
  /\ call' = [op |-> op, cycles |-> cycles_, suspended |-> TRUE]
  /\ UNCHANGED <<now, clk, registry, consumers>>

\* if (SC_ZERO_TIME != t) wait(t);
WaitIfNeeded(op, cycles_, t) ==
  /\ pc = "run"
  /\ now + t <= MaxTime
  /\ IF SC_ZERO_TIME # t
        THEN wait(t) /\ call' = [op |-> op, cycles |-> cycles_, suspended |-> TRUE]
        ELSE UNCHANGED <<pc, wake>>
             /\ call' = [op |-> op, cycles |-> cycles_, suspended |-> FALSE]
  /\ UNCHANGED <<now, clk, registry, consumers>>

wait_posedge(cycles_) == WaitIfNeeded("posedge", cycles_, until_posedge(cycles_))

wait_negedge(cycles_) == WaitIfNeeded("negedge", cycles_, until_negedge(cycles_))

wait_anyedge(cycles_) == WaitIfNeeded("anyedge", cycles_, until_anyedge(cycles_))

wait_sample(cycles_)  == WaitIfNeeded("sample", cycles_, until_sample(cycles_))

wait_setedge(cycles_) == WaitIfNeeded("setedge", cycles_, until_setedge(cycles_))

\* ------------------------------------------------------- set_time_shift

set_time_shift(tSHIFT) ==
  /\ pc = "run"
  /\ clk' = [clk EXCEPT !.m_tSHIFT = tSHIFT]
  /\ call' = NoCall
  /\ UNCHANGED <<now, pc, wake, registry, consumers>>

\* ------------------------------------------------------- Spec: one clock, one consumer

EmptyRegistry ==
  /\ s_global = [k \in 1..NumKeys |-> 0]
  /\ objs = << >>
  /\ rets = {}

Init ==
  /\ now = 0
  /\ \E tPERIOD \in Periods, duty \in Duties, positive \in BOOLEAN :
       \E tOFFSET \in 0..(tPERIOD - 1), tSAMPLE \in 0..(tPERIOD - 1),
          tSETEDGE \in 0..(tPERIOD - 1) :
         /\ ValidConfig(tPERIOD, duty, tOFFSET, tSAMPLE, tSETEDGE)
         /\ clk = no_clock(tPERIOD, duty, tOFFSET, tSAMPLE, tSETEDGE, positive)
  /\ pc = "run"
  /\ wake = 0
  /\ call = NoCall
  /\ consumers = [p \in Procs |-> NoConsumer]
  /\ EmptyRegistry

Next ==
  \/ \E n \in Cycles : wait_posedge(n)
  \/ \E n \in Cycles : wait_negedge(n)
  \/ \E n \in Cycles : wait_anyedge(n)
  \/ \E n \in Cycles : wait_sample(n)
  \/ \E n \in Cycles : wait_setedge(n)
  \/ \E tSHIFT \in Shifts : set_time_shift(tSHIFT)
  \/ \E d \in 1..MaxWait : thread_wait(d)
  \/ Resume

Spec == Init /\ [][Next]_vars

\* ------------------------------------------------------- configuration mutators

\* what every mutator does: the elapsed cycles go to m_base_count, the change is
\* stamped with the current time and counted, the new parameters are applied
\* and the edge offsets derived again; a configuration error changes nothing
Reconfigure(tPERIOD, duty, tOFFSET, tSAMPLE, tSETEDGE) ==
  /\ pc = "run"
  /\ ValidConfig(tPERIOD, duty, tOFFSET, tSAMPLE, tSETEDGE)
  /\ clk.m_freq_count < MaxChanges
  /\ clk' = [clk EXCEPT
               !.m_base_count    = cycles,
               !.m_frequency_set = now,
               !.m_freq_count    = @ + 1,
               !.m_tPERIOD       = tPERIOD,
               !.m_duty          = duty,
               !.m_tOFFSET       = tOFFSET,
               !.m_tSAMPLE       = tSAMPLE,
               !.m_tSETEDGE      = tSETEDGE,
               !.m_tPOSEDGE      = PosEdgeOffset(tPERIOD, duty, tOFFSET, clk.m_posedge),
               !.m_tNEGEDGE      = NegEdgeOffset(tPERIOD, duty, tOFFSET, clk.m_posedge)]
  /\ call' = NoCall
  /\ UNCHANGED <<now, pc, wake, registry, consumers>>

set_period_time(tPERIOD) ==
  Reconfigure(tPERIOD, clk.m_duty, clk.m_tOFFSET, clk.m_tSAMPLE, clk.m_tSETEDGE)

\* the period of a frequency: sc_time(1/frequency, SC_SEC), rounded to a tick
PeriodOf(frequency) == (2 * TicksPerSecond + frequency) \div (2 * frequency)

set_frequency(frequency) == set_period_time(PeriodOf(frequency))

set_offset_time(tOFFSET) ==
  Reconfigure(clk.m_tPERIOD, clk.m_duty, tOFFSET, clk.m_tSAMPLE, clk.m_tSETEDGE)

set_duty_cycle(duty) ==
  Reconfigure(clk.m_tPERIOD, duty, clk.m_tOFFSET, clk.m_tSAMPLE, clk.m_tSETEDGE)

set_sample_time(tSAMPLE) ==
  Reconfigure(clk.m_tPERIOD, clk.m_duty, clk.m_tOFFSET, tSAMPLE, clk.m_tSETEDGE)

set_setedge_time(tSETEDGE) ==
  Reconfigure(clk.m_tPERIOD, clk.m_duty, clk.m_tOFFSET, clk.m_tSAMPLE, tSETEDGE)

\* ------------------------------------------------------- SpecMut: reconfiguration

InitMut ==
  /\ now = 0
  /\ \E tPERIOD \in Periods, duty \in Duties, positive \in BOOLEAN :
       clk = no_clock(tPERIOD, duty, SC_ZERO_TIME, SC_ZERO_TIME, SC_ZERO_TIME, positive)
  /\ pc = "run"
  /\ wake = 0
  /\ call = NoCall
  /\ consumers = [p \in Procs |-> NoConsumer]
  /\ EmptyRegistry

NextMut ==
  \/ \E frequency \in 1..MaxFreq : set_frequency(frequency)
  \/ \E tPERIOD \in Periods : set_period_time(tPERIOD)
  \/ \E tOFFSET \in 0..(MaxPeriod - 1) : set_offset_time(tOFFSET)
  \/ \E duty \in Duties : set_duty_cycle(duty)
  \/ \E tSAMPLE \in 0..(MaxPeriod - 1) : set_sample_time(tSAMPLE)
  \/ \E tSETEDGE \in 0..(MaxPeriod - 1) : set_setedge_time(tSETEDGE)
  \/ \E tSHIFT \in Shifts : set_time_shift(tSHIFT)
  \/ \E d \in 1..MaxWait : thread_wait(d)
  \/ Resume

SpecMut == InitMut /\ [][NextMut]_vars

\* ------------------------------------------------------- SpecReg: the registry

Keys == 1..NumKeys

\* the characters the string at a key holds: keys NumNames apart hold the same
Content(key) == ((key - 1) % NumNames) + 1

\* std::map<const char*, no_clock*>: an entry is found by the key's value
Registered(clock_name) == s_global[clock_name] # 0

global(clock_name, tPERIOD, duty, tOFFSET, tSAMPLE, tSETEDGE, positive) ==
  /\ ValidConfig(tPERIOD, duty, tOFFSET, tSAMPLE, tSETEDGE)
  /\ IF Registered(clock_name)
       THEN /\ rets' = rets \cup {<<clock_name, s_global[clock_name]>>}
            /\ UNCHANGED <<s_global, objs>>
       ELSE /\ objs' = Append(objs,
                   no_clock(tPERIOD, duty, tOFFSET, tSAMPLE, tSETEDGE, positive))
            /\ s_global' = [s_global EXCEPT ![clock_name] = Len(objs) + 1]
            /\ rets' = rets \cup {<<clock_name, Len(objs) + 1>>}
  /\ UNCHANGED <<now, clk, pc, wake, call, consumers>>

\* global(name): the clock registered before; a usage error otherwise
global_lookup(clock_name) ==
  /\ Registered(clock_name)
  /\ rets' = rets \cup {<<clock_name, s_global[clock_name]>>}
  /\ UNCHANGED <<now, clk, pc, wake, call, s_global, objs, consumers>>

InitReg ==
  /\ now = 0
  /\ clk = no_clock(1, 0, SC_ZERO_TIME, SC_ZERO_TIME, SC_ZERO_TIME, TRUE)
  /\ pc = "run"
  /\ wake = 0
  /\ call = NoCall
  /\ consumers = [p \in Procs |-> NoConsumer]
  /\ EmptyRegistry

NextReg ==
  \/ \E clock_name \in Keys, tPERIOD \in Periods, positive \in BOOLEAN :
       global(clock_name, tPERIOD, DutyDen, SC_ZERO_TIME, SC_ZERO_TIME, SC_ZERO_TIME,
              positive)
  \/ \E clock_name \in Keys : global_lookup(clock_name)

SpecReg == InitReg /\ [][NextReg]_vars

\* ------------------------------------------------------- SpecLoop: an edge-driven loop

\* a consumer loop body: wait(clk.next_anyedge());
loop_next_anyedge ==
  /\ pc = "run"
  /\ now + next_anyedge(0) <= MaxTime
  /\ wait(next_anyedge(0))
  /\ call' = [op |-> "next_anyedge", at |-> now]
  /\ UNCHANGED <<now, clk, registry, consumers>>

NextLoop ==
  \/ loop_next_anyedge
  \/ \E tSHIFT \in Shifts : set_time_shift(tSHIFT)
  \/ \E d \in 1..MaxWait : thread_wait(d)
  \/ Resume

SpecLoop == Init /\ [][NextLoop]_vars

\* ------------------------------------------------------- SpecMulti: consumers sharing clk

consumer_state == <<pc, wake, call, registry>>

\* faulty variant of ConsumerWaitIfNeeded: a zero delay waits one period
ConsumerWaitNext(p, op, t) ==
  /\ consumers[p].pc = "run"
  /\ \A q \in Procs : consumers[q].op \in {"none", op}
  /\ now + t <= MaxTime
  /\ consumers' = [consumers EXCEPT ![p] =
         [pc |-> "wait",
          wake |-> IF SC_ZERO_TIME # t THEN now + t ELSE now + clk.m_tPERIOD,
          op |-> op, at |-> now, released |-> -1]]
  /\ UNCHANGED <<now, clk, consumer_state>>

\* if (SC_ZERO_TIME != t) wait(t);  called by process p, which goes on at
\* once when t is zero and when the scheduler resumes it otherwise.  The
\* processes of one behaviour are the consumers of one landmark.
ConsumerWaitIfNeeded(p, op, t) ==
  /\ consumers[p].pc = "run"
  /\ \A q \in Procs : consumers[q].op \in {"none", op}
  /\ now + t <= MaxTime
  /\ consumers' = [consumers EXCEPT ![p] =
         IF SC_ZERO_TIME # t
           THEN [pc |-> "wait", wake |-> now + t, op |-> op, at |-> now,
                 released |-> -1]
           ELSE [pc |-> "run", wake |-> 0, op |-> op, at |-> now,
                 released |-> now]]
  /\ UNCHANGED <<now, clk, consumer_state>>

consumer_wait_posedge(p) == ConsumerWaitIfNeeded(p, "posedge", until_posedge(0))

consumer_wait_negedge(p) == ConsumerWaitIfNeeded(p, "negedge", until_negedge(0))

consumer_wait_anyedge(p) == ConsumerWaitIfNeeded(p, "anyedge", until_anyedge(0))

consumer_wait_sample(p)  == ConsumerWaitIfNeeded(p, "sample", until_sample(0))

consumer_wait_setedge(p) == ConsumerWaitIfNeeded(p, "setedge", until_setedge(0))

\* the scheduler advances the time by one tick and resumes every process whose
\* wait(t) ends then; a process that is not inside a wait_* call spends the
\* tick in a wait of its own
Advance ==
  /\ now < MaxTime
  /\ now' = now + 1
  /\ consumers' = [p \in Procs |->
         IF consumers[p].pc = "wait" /\ consumers[p].wake = now + 1
           THEN [consumers[p] EXCEPT !.pc = "run", !.wake = 0, !.released = now + 1]
           ELSE consumers[p]]
  /\ UNCHANGED <<clk, consumer_state>>

\* the clock's landmarks are configured with one offset in SpecMulti: a
\* behaviour uses one landmark, and every (period, offset) pair is covered
InitMulti ==
  /\ now = 0
  /\ \E tPERIOD \in Periods, duty \in Duties, positive \in BOOLEAN :
       \E tOFFSET \in 0..(tPERIOD - 1) :
         /\ ValidConfig(tPERIOD, duty, tOFFSET, tOFFSET, tOFFSET)
         /\ clk = no_clock(tPERIOD, duty, tOFFSET, tOFFSET, tOFFSET, positive)
  /\ pc = "run"
  /\ wake = 0
  /\ call = NoCall
  /\ consumers = [p \in Procs |-> NoConsumer]
  /\ EmptyRegistry

NextMulti ==
  \/ \E p \in Procs : consumer_wait_posedge(p)
  \/ \E p \in Procs : consumer_wait_negedge(p)
  \/ \E p \in Procs : consumer_wait_anyedge(p)
  \/ \E p \in Procs : consumer_wait_sample(p)
  \/ \E p \in Procs : consumer_wait_setedge(p)
  \/ Advance

SpecMulti == InitMulti /\ [][NextMulti]_vars

\* ------------------------------------------------------- properties

Landmarks == {"posedge", "negedge", "anyedge", "sample", "setedge"}

Until(X, n) ==
  CASE X = "posedge" -> until_posedge(n)
    [] X = "negedge" -> until_negedge(n)
    [] X = "anyedge" -> until_anyedge(n)
    [] X = "sample"  -> until_sample(n)
    [] X = "setedge" -> until_setedge(n)

NextOf(X, n) ==
  CASE X = "posedge" -> next_posedge(n)
    [] X = "negedge" -> next_negedge(n)
    [] X = "anyedge" -> next_anyedge(n)
    [] X = "sample"  -> next_sample(n)
    [] X = "setedge" -> next_setedge(n)

AtTime(X) ==
  CASE X = "posedge" -> at_posedge_time
    [] X = "negedge" -> at_negedge_time
    [] X = "anyedge" -> at_anyedge_time
    [] X = "sample"  -> at_sample_time
    [] X = "setedge" -> at_setedge_time

\* the landmark offsets the clock is configured with
ConfiguredOffsets == {clk.m_tPOSEDGE, clk.m_tNEGEDGE, clk.m_tSAMPLE, clk.m_tSETEDGE}

C2_PosedgeZeroIffOnEdge ==
  LET onEdge == ((now + clk.m_tSHIFT) % clk.m_tPERIOD) = clk.m_tPOSEDGE
  IN  /\ (until_posedge(0) = 0) <=> onEdge
      /\ ~onEdge => until_posedge(0) > 0

\* C2 witness: a shifted clock with a non-zero positive-edge offset, exactly
\* on its positive edge at a time past zero.
C2_Witness ==
  /\ now > 0
  /\ clk.m_tSHIFT > 0
  /\ clk.m_tPOSEDGE > 0
  /\ clk.m_tPOSEDGE # clk.m_tNEGEDGE
  /\ until_posedge(0) = 0

\* C3: for every landmark X, at_X_time() is true exactly when until_X(0) is
\* zero for that same landmark, at_setedge_time() included.
C3_AtTimeIffUntilZero ==
  \A X \in Landmarks : AtTime(X) <=> (Until(X, 0) = SC_ZERO_TIME)

\* C4: next_X(n) is never zero; next_X(0) is the raw delay to X when that is
\* non-zero and one period when it is zero, so 0 < next_X(0) <= period; and
\* next_X(n) = n*period + next_X(0).
C4_NextNeverZero ==
  \A X \in Landmarks :
    /\ NextOf(X, 0) = (IF Until(X, 0) # 0 THEN Until(X, 0) ELSE clk.m_tPERIOD)
    /\ 0 < NextOf(X, 0) /\ NextOf(X, 0) <= clk.m_tPERIOD
    /\ \A n \in Cycles :
         /\ NextOf(X, n) # 0
         /\ NextOf(X, n) = n * clk.m_tPERIOD + NextOf(X, 0)

\* C4 witness: a shifted clock exactly on its positive edge and on its sample
\* point, where the raw delays are zero and next_* add one period.
C4_Witness ==
  /\ now > 0
  /\ clk.m_tSHIFT > 0
  /\ clk.m_tPERIOD > 1
  /\ until_posedge(0) = 0
  /\ until_sample(0) = 0
  /\ until_setedge(0) # 0
  /\ next_posedge(0) = clk.m_tPERIOD
  /\ next_anyedge(0) = clk.m_tPERIOD

\* the distance from the latest positive edge to now, in [0, period)
Phase == (now + clk.m_tSHIFT + clk.m_tPERIOD - clk.m_tPOSEDGE) % clk.m_tPERIOD

\* dutyCycle * period is a whole number of ticks
ExactHighTime == (clk.m_duty * clk.m_tPERIOD) % DutyDen = 0

\* C5: read() is true for the fraction dutyCycle of each period, for every
\* dutyCycle in [0,1]: false at the rising edge itself, true from just after
\* it for dutyCycle * period, false for the rest of the period.
C5_ReadHighForDutyFraction ==
  ExactHighTime =>
    (read <=> (0 < Phase /\ Phase <= HighTime(clk.m_tPERIOD, clk.m_duty)))

\* C6: wait_X(n) suspends the caller exactly when until_X(n) is non-zero, and
\* then until now + until_X(n); once it has returned, the time is on X.
C6_WaitLandsOnLandmark ==
  call.op \in Landmarks =>
    IF pc = "wait"
      THEN /\ call.suspended
           /\ Until(call.op, call.cycles) # SC_ZERO_TIME
           /\ wake = now + Until(call.op, call.cycles)
      ELSE /\ Until(call.op, 0) = SC_ZERO_TIME
           /\ ~call.suspended => Until(call.op, call.cycles) = SC_ZERO_TIME

\* C6 witness: the consumer is back from a wait_anyedge(1) that suspended it,
\* on a shifted clock whose two edges differ.
C6_Witness ==
  /\ call.op = "anyedge"
  /\ call.cycles = 1
  /\ call.suspended
  /\ pc = "run"
  /\ clk.m_tSHIFT > 0
  /\ clk.m_tPOSEDGE # clk.m_tNEGEDGE
  /\ until_negedge(0) = SC_ZERO_TIME

\* C7: with no shift, delay(P, O) is the distance to the next period boundary
\* plus O: delay(P, O, 0) = delay(P, 0, 0) + O.
C7_DelayIsBoundaryPlusOffset ==
  \A tOFFSET \in 0..(clk.m_tPERIOD - 1) :
    delay(clk.m_tPERIOD, tOFFSET, SC_ZERO_TIME)
      = delay(clk.m_tPERIOD, SC_ZERO_TIME, SC_ZERO_TIME) + tOFFSET

\* C8: two global() calls whose names have the same characters return the same
\* instance, whichever strings carried the names; the registry holds at most
\* one entry per name and every instance returned stays registered.
C8_OneClockPerName ==
  /\ \A r1 \in rets, r2 \in rets :
       Content(r1[1]) = Content(r2[1]) => r1[2] = r2[2]
  /\ \A k1 \in Keys, k2 \in Keys :
       (Registered(k1) /\ Registered(k2) /\ Content(k1) = Content(k2)) => k1 = k2
  /\ \A r \in rets : s_global[r[1]] = r[2]

\* cycles() as the data model states it
CyclesFormula ==
  clk.m_base_count
    + ((now + clk.m_tSHIFT - clk.m_frequency_set) \div clk.m_tPERIOD)

\* C9: cycles() is cycleBaseCount + floor((now + shift - lastChange)/period);
\* cycles() right after set_period_time equals cycles() right before it; and
\* cycles() never decreases over time advances and period changes.
C9_CyclesContinuousAcrossPeriodChange ==
  /\ [](cycles = CyclesFormula)
  /\ [][(\E tPERIOD \in Periods : set_period_time(tPERIOD)) => cycles' = cycles]_vars
  /\ [][((\E tPERIOD \in Periods : set_period_time(tPERIOD)) \/ Resume)
          => cycles' >= cycles]_vars

AnyMutator ==
  \/ \E frequency \in 1..MaxFreq : set_frequency(frequency)
  \/ \E tPERIOD \in Periods : set_period_time(tPERIOD)
  \/ \E tOFFSET \in 0..(MaxPeriod - 1) : set_offset_time(tOFFSET)
  \/ \E duty \in Duties : set_duty_cycle(duty)
  \/ \E tSAMPLE \in 0..(MaxPeriod - 1) : set_sample_time(tSAMPLE)
  \/ \E tSETEDGE \in 0..(MaxPeriod - 1) : set_setedge_time(tSETEDGE)
  \/ \E tSHIFT \in Shifts : set_time_shift(tSHIFT)

\* C10: every configuration mutator call, set_time_shift included, adds
\* exactly one to frequencyChangeCount, puts the elapsed cycles into
\* cycleBaseCount and sets lastFrequencyChangeTime to now.
C10_EveryMutatorCounts ==
  [][AnyMutator =>
       /\ clk'.m_freq_count = clk.m_freq_count + 1
       /\ clk'.m_base_count = cycles
       /\ clk'.m_frequency_set = now]_vars

\* C11: for every landmark X and every n >= 0, at one time and configuration,
\* until_X(n+1) = until_X(n) + period.
C11_UntilPeriodic ==
  \A X \in Landmarks : \A n \in Cycles :
    Until(X, n + 1) = Until(X, n) + clk.m_tPERIOD

\* C11 witness: a shifted clock past time zero and off its edges and its
\* set-edge point, with two distinct edges, where until_anyedge(1) and
\* until_setedge(1) are more than one period.
C11_Witness ==
  /\ now > 0
  /\ clk.m_tSHIFT > 0
  /\ clk.m_tPOSEDGE # clk.m_tNEGEDGE
  /\ until_anyedge(0) > 0
  /\ until_anyedge(1) > clk.m_tPERIOD
  /\ until_setedge(1) > clk.m_tPERIOD

Min(a, b) == IF a <= b THEN a ELSE b

\* the shifted time within the period, in [0, period)
PhaseInPeriod == (now + clk.m_tSHIFT) % clk.m_tPERIOD

\* C12: until_anyedge(0) is the distance to whichever edge comes next, the
\* smaller of until_posedge(0) and until_negedge(0), and it is zero exactly
\* when the time is on a rising or a falling edge.
C12_AnyedgeIsNearestEdge ==
  /\ until_anyedge(0) = Min(until_posedge(0), until_negedge(0))
  /\ (until_anyedge(0) = 0) <=> (PhaseInPeriod \in {clk.m_tPOSEDGE, clk.m_tNEGEDGE})

\* C12 witness: a shifted clock on its falling edge, with the rising edge
\* still to come, so that the two distances differ and the smaller is zero.
C12_Witness ==
  /\ now > 0
  /\ clk.m_tSHIFT > 0
  /\ until_negedge(0) = 0
  /\ until_posedge(0) > 0
  /\ until_anyedge(0) = 0

\* the clock has an edge, rising or falling, at time u
EdgeAt(u) == ((u + clk.m_tSHIFT) % clk.m_tPERIOD) \in {clk.m_tPOSEDGE, clk.m_tNEGEDGE}

\* C14: with 0 < dutyCycle < 1, a process that suspends for next_anyedge(0)
\* wakes on the nearest edge strictly after the time of the call: it is on an
\* edge and has passed none since the call.
C14_LoopVisitsEveryEdge ==
  (/\ call.op = "next_anyedge"
   /\ pc = "run"
   /\ 0 < clk.m_duty /\ clk.m_duty < DutyDen)
    => /\ EdgeAt(now)
       /\ \A u \in (call.at + 1)..(now - 1) : ~EdgeAt(u)

\* landmark X occurs at time u
OccursAt(X, u) ==
  LET phase == (u + clk.m_tSHIFT) % clk.m_tPERIOD
  IN  CASE X = "posedge" -> phase = clk.m_tPOSEDGE
        [] X = "negedge" -> phase = clk.m_tNEGEDGE
        [] X = "anyedge" -> phase \in {clk.m_tPOSEDGE, clk.m_tNEGEDGE}
        [] X = "sample"  -> phase = clk.m_tSAMPLE
        [] X = "setedge" -> phase = clk.m_tSETEDGE

\* the times a and b lie after one occurrence of X and not after the next
SameWindow(X, a, b) ==
  \A u \in Min(a, b)..(IF a <= b THEN b ELSE a) - 1 : ~OccursAt(X, u)

\* process p called wait_X(0) and has gone on since
Released(p) == consumers[p].op \in Landmarks /\ consumers[p].released # -1

\* C13: two consumer processes that called wait_X(0) on the same landmark X of
\* the shared clock, at times within one window between occurrences of X, are
\* released at the same time, and that time is the next occurrence of X.
C13_ConsumersReleasedTogether ==
  \A p \in Procs : \A q \in Procs :
    (/\ Released(p) /\ Released(q)
     /\ consumers[p].op = consumers[q].op
     /\ SameWindow(consumers[p].op, consumers[p].at, consumers[q].at))
      => /\ consumers[p].released = consumers[q].released
         /\ OccursAt(consumers[p].op, consumers[p].released)
         /\ \A u \in consumers[p].at..(consumers[p].released - 1) :
              ~OccursAt(consumers[p].op, u)

C13_Witness ==
  \E p \in Procs : \E q \in Procs :
    /\ Released(p) /\ Released(q)
    /\ consumers[p].op = consumers[q].op
    /\ consumers[p].at < consumers[q].at
    /\ consumers[q].at < consumers[q].released
    /\ SameWindow(consumers[p].op, consumers[p].at, consumers[q].at)
    /\ consumers[p].released = consumers[q].released

=============================================================================
